---- MODULE Spec2Model ----
(***************************************************************************)
(* Resume tailoring pipeline (src/run.py, src/latex_validate.py,           *)
(* src/notion_client.py, src/llm_gemini.py).                               *)
(*                                                                         *)
(* A document is a sequence of tokens.  A token is either one character    *)
(* that the pipeline inspects on its own ("{", "}", "[", "]", "\n", " ")   *)
(* or a run of text that the pipeline only ever treats as a unit: a        *)
(* command such as \documentclass, one of the literal section headers, a   *)
(* \textbf{...} group, the text of the preamble.  Every composite token    *)
(* has as many "{" as "}" inside, so comparing the counts of the lone      *)
(* brace tokens is comparing str.count("{") with str.count("}").           *)
(***************************************************************************)
EXTENDS Integers, Sequences, FiniteSets, TLC

VARIABLES
    cur,            \* number of pages the for loop has taken; the page at hand
    pc,             \* position of main() in the loop body
    jd,             \* local jd of the page at hand
    tailored_latex, \* local tailored_latex
    ok,             \* local ok     (looks_like_latex_resume)
    reason,         \* local reason (looks_like_latex_resume)
    exc,            \* the exception travelling to "except Exception as e"
    tex_file,       \* content of tex_path of the current page, <<>> if unwritten
    art,            \* artifacts of the current page: pdf compiled, files uploaded, links
    notion,         \* record store: page -> Status
    run_log,        \* run_log dict
    log_written,    \* artifacts/run_log.json was written
    attempts,       \* history: generation calls made for the current page
    writes,         \* history: update_page_safe calls made for the current page
    logged,         \* history: reason of the run_log entry of the current page
    call,           \* pure-function harness: the call being made
    ret             \* pure-function harness: its result

mainVars == <<cur, pc, jd, tailored_latex, ok, reason, exc, tex_file, art, notion,
              run_log, log_written, attempts, writes, logged>>
pureVars == <<call, ret>>
vars == <<cur, pc, jd, tailored_latex, ok, reason, exc, tex_file, art, notion,
          run_log, log_written, attempts, writes, logged, call, ret>>

----------------------------------------------------------------------------
(* Bounds *)

\* number of pages fetched from the record store (LIMIT)
NumRecords == 2
\* pure-function harness: largest bullet count of the reference
MaxMasterItems == 3
\* pure-function harness: largest tolerance (max_drop, max_add)
MaxTol == 2
\* pure-function harness: largest number of bullets added to a marker document
MaxExtraItems == 1
\* pure-function harness: largest length of a short raw text given to sanitize_latex
MaxRawLen == 3
\* pure-function harness: largest length of a text given to escape_tex_specials
MaxEscLen == 4
\* pure-function harness: largest length of a candidate given to merge_with_master_preamble
MaxMergeLen == 5
\* pure-function harness: largest length of a property name given to update_page_safe
MaxNameLen == 3
\* pure-function harness: largest length of the free part of a text given to clean_path_segment
MaxSegLen == 3

----------------------------------------------------------------------------
(* Tokens *)

DC == "\\documentclass"
BD == "\\begin{document}"
ED == "\\end{document}"
ITEM == "\\item"
SKILLS == "\\section*{\\color{mygreen}{SKILLS}}"
EXPERIENCE == "\\section*{\\color{mygreen}{EXPERIENCE}}"
PROJECTS == "\\section*{\\color{mygreen}{PROJECTS}}"
\* the text between \documentclass and \begin{document} of MASTER_LATEX
MasterPreambleText == "[10pt]{extarticle}...\\date{}"
\* a preamble text written by the model
OtherPreambleText == "{article}\\usepackage{fancy}"
\* \textbf{...} groups: two that MASTER_LATEX has, one that it has not
BoldA == "\\textbf{TheBeautyRunners}"
BoldB == "\\textbf{GetCoverly.ai}"
BoldNew == "\\textbf{Initech}"
BoldTokens == {BoldA, BoldB, BoldNew}
\* the three backquotes of a markdown code fence
FENCE == "[fence]"
\* characters str.strip and the regex class for white space take
WS == {" ", "\n", "\t", "U+00A0"}

----------------------------------------------------------------------------
(* Sequence helpers: Python str methods on token sequences *)

\* str.find: index of the first occurrence, 0 when there is none (Python: -1)
RECURSIVE FindFrom(_, _, _)
FindFrom(s, t, i) ==
    IF i > Len(s) THEN 0
    ELSE IF s[i] = t THEN i
    ELSE FindFrom(s, t, i + 1)

Find(s, t) == FindFrom(s, t, 1)

\* str.rfind: index of the last occurrence, 0 when there is none
RECURSIVE RFindFrom(_, _, _)
RFindFrom(s, t, i) ==
    IF i < 1 THEN 0
    ELSE IF s[i] = t THEN i
    ELSE RFindFrom(s, t, i - 1)

RFind(s, t) == RFindFrom(s, t, Len(s))

\* "t in s"
Contains(s, t) == \E i \in 1..Len(s) : s[i] = t

\* str.count
Count(s, t) == Cardinality({i \in 1..Len(s) : s[i] = t})

RECURSIVE LStrip(_)
LStrip(s) ==
    IF s # <<>> /\ Head(s) \in WS THEN LStrip(Tail(s)) ELSE s

RECURSIVE RStrip(_)
RStrip(s) ==
    IF s # <<>> /\ s[Len(s)] \in WS THEN RStrip(SubSeq(s, 1, Len(s) - 1)) ELSE s

\* a strip that takes nothing away
StripNothing(s) == s

Strip(s) == RStrip(LStrip(s))

\* s.replace(a, b) where a is one token and b a token sequence
RECURSIVE ReplaceTok(_, _, _)
ReplaceTok(s, a, b) ==
    IF s = <<>> THEN <<>>
    ELSE (IF Head(s) = a THEN b ELSE <<Head(s)>>) \o ReplaceTok(Tail(s), a, b)

\* n copies of a token sequence
RECURSIVE Repeat(_, _)
Repeat(s, n) == IF n <= 0 THEN <<>> ELSE s \o Repeat(s, n - 1)

----------------------------------------------------------------------------
(* run.py 24-161: MASTER_LATEX.  29 \item: 1 before SKILLS, 5 in SKILLS,   *)
(* 9 in EXPERIENCE, 14 in PROJECTS; braces and brackets balanced.          *)

MASTER_LATEX ==
    <<DC, MasterPreambleText, BD, "\n", "{", "}", "[", "]", ITEM, "\n", SKILLS>>
    \o Repeat(<<ITEM>>, 5)
    \o <<EXPERIENCE, BoldA>> \o Repeat(<<ITEM>>, 9)
    \o <<PROJECTS, BoldB>> \o Repeat(<<ITEM>>, 14)
    \o <<"\n", ED>>

----------------------------------------------------------------------------
(* run.py 234-247 *)

NormalizeTok(t) ==
    CASE t = "U+2013" -> "-"
      [] t = "U+2014" -> "-"
      [] t = "U+2018" -> "'"
      [] t = "U+2019" -> "'"
      [] t = "U+201C" -> "\""
      [] t = "U+201D" -> "\""
      [] t = "U+2022" -> "-"
      [] t = "U+00D7" -> "x"
      [] t = "U+00A0" -> " "
      [] OTHER -> t

\* a table that has the dashes, the quotes and the bullet only
NormalizeDashesQuotes(s) ==
    [i \in 1..Len(s) |-> IF s[i] \in {"U+00D7", "U+00A0"} THEN s[i] ELSE NormalizeTok(s[i])]

normalize_unicode(s) == [i \in 1..Len(s) |-> NormalizeTok(s[i])]

(* run.py 250-269: one re.sub per reserved character, in dict order; a     *)
(* character is replaced unless the character before it is a backslash.    *)
(* re.sub reads its replacement as a template: the backslash before &, %,  *)
(* $, # and _ stays as it is, but the two characters at the head of        *)
(* \textasciicircum{} and of \textasciitilde{} are the escape for a tab, so *)
(* what is put in place of ^ and ~ is a tab followed by "extascii...{}".   *)
Replacements ==
    << <<"&", <<"\\", "&">> >>,
       <<"%", <<"\\", "%">> >>,
       <<"$", <<"\\", "$">> >>,
       <<"#", <<"\\", "#">> >>,
       <<"_", <<"\\", "_">> >>,
       <<"^", <<"\t", "extasciicircum{}">> >>,
       <<"~", <<"\t", "extasciitilde{}">> >> >>

RECURSIVE EscapeFrom(_, _, _, _)
EscapeFrom(s, ch, rep, i) ==
    IF i > Len(s) THEN <<>>
    ELSE (IF s[i] = ch /\ ~(i > 1 /\ s[i - 1] = "\\") THEN rep ELSE <<s[i]>>)
         \o EscapeFrom(s, ch, rep, i + 1)

\* a loop that ends after the five characters that get a backslash
RECURSIVE EscapeLoopFive(_, _)
EscapeLoopFive(out, k) ==
    IF k > 5 THEN out
    ELSE EscapeLoopFive(EscapeFrom(out, Replacements[k][1], Replacements[k][2], 1), k + 1)

RECURSIVE EscapeLoop(_, _)
EscapeLoop(out, k) ==
    IF k > Len(Replacements) THEN out
    ELSE EscapeLoop(EscapeFrom(out, Replacements[k][1], Replacements[k][2], 1), k + 1)

\* an escaping that does not look at the character before: every reserved
\* character gets a backslash
EscapeAlways(latex) ==
    LET RECURSIVE Go(_)
        Go(s) == IF s = <<>> THEN <<>>
                 ELSE (IF \E k \in 1..Len(Replacements) : Replacements[k][1] = Head(s)
                       THEN <<"\\", Head(s)>> ELSE <<Head(s)>>)
                      \o Go(Tail(s))
    IN  Go(latex)

escape_tex_specials(latex) == EscapeLoop(latex, 1)

----------------------------------------------------------------------------
(* run.py 272-315: sanitize_latex *)

\* tokens made of [a-zA-Z0-9_-] only
WordToks == {"latex", "tex", "documentclass", "usepackage"}

\* line 275
DropBomNul(s) == SelectSeq(s, LAMBDA t : t \notin {"U+FEFF", "NUL"})

\* line 278
MathCommands(s) == ReplaceTok(ReplaceTok(s, "\\times", <<"x">>), "\\pm", <<"+/-">>)

RECURSIVE SkipWhile(_, _, _)
SkipWhile(s, i, set) ==
    IF i <= Len(s) /\ s[i] \in set THEN SkipWhile(s, i + 1, set) ELSE i

\* line 281: an opening code fence at the very start, up to the last newline
\* of the white space after its language word, is removed
StripFenceOpen(s) ==
    LET a == SkipWhile(s, 1, WS)                 \* leading white space
    IN  IF a > Len(s) \/ s[a] # FENCE THEN s
        ELSE LET b == SkipWhile(s, a + 1, WordToks)   \* language word
                 c == SkipWhile(s, b, WS)             \* end of the white space
                 nl == {i \in b..(c - 1) : s[i] = "\n"}
             IN  IF nl = {} THEN s
                 ELSE LET last == CHOOSE i \in nl : \A j \in nl : j <= i
                      IN  SubSeq(s, last + 1, Len(s))

RECURSIVE SkipBackWhile(_, _, _)
SkipBackWhile(s, i, set) ==
    IF i >= 1 /\ s[i] \in set THEN SkipBackWhile(s, i - 1, set) ELSE i

\* line 282: a closing code fence at the very end is removed, from the first
\* newline of the white space before it
StripFenceClose(s) ==
    LET e == SkipBackWhile(s, Len(s), WS)        \* trailing white space
    IN  IF e < 1 \/ s[e] # FENCE THEN s
        ELSE LET w == SkipBackWhile(s, e - 1, WS)    \* before the white space
                 nl == {i \in (w + 1)..(e - 1) : s[i] = "\n"}
             IN  IF nl = {} THEN s
                 ELSE LET first == CHOOSE i \in nl : \A j \in nl : i <= j
                      IN  SubSeq(s, 1, first - 1)

\* lines 285-287
TrimStart(s) ==
    LET start == Find(s, DC)
    IN  IF start # 0 THEN SubSeq(s, start, Len(s)) ELSE s

\* lines 288-290
TrimEnd(s) ==
    LET end == RFind(s, ED)
    IN  IF end # 0 THEN SubSeq(s, 1, end) ELSE s

\* lines 293-300: splitlines, repair of the first line, "\n".join
RepairFirstLine(s) ==
    LET j  == IF s # <<>> /\ s[Len(s)] = "\n" THEN SubSeq(s, 1, Len(s) - 1) ELSE s
        nl == Find(j, "\n")
        n0 == IF nl = 0 THEN Len(j) ELSE nl - 1      \* length of lines[0]
        p  == SkipWhile(SubSeq(j, 1, n0), 1, WS)     \* where l0 starts
    IN  IF j = <<>> \/ p > n0 THEN j
        ELSE IF j[p] = "documentclass" THEN [j EXCEPT ![p] = DC]
        ELSE IF j[p] = "usepackage" THEN [j EXCEPT ![p] = "\\usepackage"]
        ELSE j

\* lines 273-303: the text on which the two final tests are made
SanitizeText(tex) ==
    escape_tex_specials(normalize_unicode(RepairFirstLine(TrimEnd(TrimStart(
        StripFenceClose(StripFenceOpen(MathCommands(Strip(DropBomNul(tex))))))))))

\* lines 305-315: [raised, msg, tex]
sanitize_latex(tex) ==
    LET t == SanitizeText(tex)
        l == LStrip(t)
    IN  IF l = <<>> \/ Head(l) # DC
        THEN [raised |-> TRUE, msg |-> "does not start with \\documentclass", tex |-> <<>>]
        ELSE IF ~Contains(t, ED)
        THEN [raised |-> TRUE, msg |-> "missing \\end{document}", tex |-> <<>>]
        ELSE [raised |-> FALSE, msg |-> "", tex |-> t]

----------------------------------------------------------------------------
(* run.py 318-332: merge_with_master_preamble.  The reference of this      *)
(* program always has \begin{document}; a reference without it raises.     *)

\* a merge that hands the candidate back as it is
MergeNothing(master, tex) == [raised |-> FALSE, msg |-> "", tex |-> tex]

\* a merge that takes the whole candidate as the body
MergeWholeCandidate(master, tex) ==
    LET start == Find(master, BD)
    IN  IF start = 0
        THEN [raised |-> TRUE, msg |-> "Master LaTeX missing \\begin{document}", tex |-> <<>>]
        ELSE [raised |-> FALSE, msg |-> "",
              tex |-> SubSeq(master, 1, start) \o <<"\n">> \o Strip(tex) \o <<"\n", ED>>]

merge_with_master_preamble(master, tex) ==
    LET start == Find(master, BD)
        preamble == SubSeq(master, 1, start)
        b_start == Find(tex, BD)
        b_end == RFind(tex, ED)
        body == IF b_start # 0 /\ b_end # 0 /\ b_end > b_start
                THEN SubSeq(tex, b_start + 1, b_end - 1)
                ELSE tex
    IN  IF start = 0
        THEN [raised |-> TRUE, msg |-> "Master LaTeX missing \\begin{document}", tex |-> <<>>]
        ELSE [raised |-> FALSE, msg |-> "",
              tex |-> preamble \o <<"\n">> \o Strip(body) \o <<"\n", ED>>]

----------------------------------------------------------------------------
(* latex_validate.py 1-10: <<ok, reason>> *)

looks_like_latex_resume(tex) ==
    IF tex = <<>> THEN <<FALSE, "Empty output">>
    ELSE IF \E m \in {DC, BD, ED} : ~Contains(tex, m) THEN <<FALSE, "Missing tokens">>
    ELSE IF Count(tex, "{") # Count(tex, "}") THEN <<FALSE, "Unbalanced braces">>
    ELSE <<TRUE, "OK">>

(* run.py 334-337: the number of \item commands; \itemsep is not one *)
count_itemize_items(latex) == Count(latex, ITEM)

(* run.py 339-352: "" when it returns, else the message of the RuntimeError *)
RequiredMarkers == <<SKILLS, EXPERIENCE, PROJECTS>>

\* a guard that looks for the markers in the reference only
MarkersOfMasterOnly(master, tailored) ==
    IF \E i \in 1..Len(RequiredMarkers) : ~Contains(master, RequiredMarkers[i])
    THEN "pipeline_error: master missing section marker"
    ELSE ""

require_same_section_markers(master, tailored) ==
    IF \E i \in 1..Len(RequiredMarkers) : ~Contains(tailored, RequiredMarkers[i])
    THEN "mutation_violation: missing section marker"
    ELSE IF \E i \in 1..Len(RequiredMarkers) : ~Contains(master, RequiredMarkers[i])
    THEN "pipeline_error: master missing section marker"
    ELSE ""

(* run.py 354-362 *)
BoldSet(s) == {s[i] : i \in {j \in 1..Len(s) : s[j] \in BoldTokens}}

require_no_new_companies(master, tailored) ==
    LET master_bold == BoldSet(master)
        tailored_bold == BoldSet(tailored)
        new_bold == {b \in tailored_bold : b \notin master_bold}
    IN  IF new_bold # {} THEN "mutation_violation: introduced new \\textbf entries"
        ELSE ""

\* a guard whose lower bound is exclusive
BulletCountStrictLower(master, tailored, max_drop, max_add) ==
    IF Count(tailored, ITEM) <= Count(master, ITEM) - max_drop
       \/ Count(tailored, ITEM) > Count(master, ITEM) + max_add
    THEN "mutation_violation: bullet_count"
    ELSE ""

(* run.py 364-370 *)
require_bullet_count_stable(master, tailored, max_drop, max_add) ==
    LET m == count_itemize_items(master)
        t == count_itemize_items(tailored)
    IN  IF t < m - max_drop \/ t > m + max_add
        THEN "mutation_violation: bullet_count"
        ELSE ""

----------------------------------------------------------------------------
(* The generation collaborator: llm_gemini.py 191-240.  What the model     *)
(* returns is not under the program's control: every candidate below, a    *)
(* pack without the required fields, a pack with an empty tailored_latex,  *)
(* or an exception.                                                        *)

\* run.py 510, 544: max_drop=10, max_add=10
MAX_DROP == 10
MAX_ADD == 10

MasterItems == count_itemize_items(MASTER_LATEX)

\* bullet counts of the candidates: the two ends of the tolerated band, one
\* beyond each end, and the reference's own count
ItemChoices ==
    {MasterItems - MAX_DROP - 1, MasterItems - MAX_DROP, MasterItems,
     MasterItems + MAX_ADD, MasterItems + MAX_ADD + 1}

CandAttrs ==
    [pre : {"master", "own", "none"}, allSections : BOOLEAN, openBrace : BOOLEAN,
     openBracket : BOOLEAN, newBold : BOOLEAN, items : ItemChoices]

MkCandidate(c) ==
    (CASE c.pre = "master" -> <<DC, MasterPreambleText, BD, "\n">>
       [] c.pre = "own" -> <<DC, OtherPreambleText, BD, "\n">>
       [] OTHER -> <<DC, "\n">>)
    \o <<SKILLS>>
    \o (IF c.allSections THEN <<EXPERIENCE>> ELSE <<>>)
    \o <<BoldA>>
    \o (IF c.newBold THEN <<BoldNew>> ELSE <<>>)
    \o <<PROJECTS>>
    \o Repeat(<<ITEM>>, c.items)
    \o (IF c.openBrace THEN <<"{">> ELSE <<>>)
    \o (IF c.openBracket THEN <<"[">> ELSE <<>>)
    \o <<"\n", ED>>

GoodCandidate ==
    MkCandidate([pre |-> "master", allSections |-> TRUE, openBrace |-> FALSE,
                 openBracket |-> FALSE, newBold |-> FALSE, items |-> MasterItems])

Candidates ==
    {MkCandidate(c) : c \in CandAttrs}
    \cup { <<"I cannot help with that.">>,                         \* no document
           SubSeq(GoodCandidate, 1, Len(GoodCandidate) - 1),       \* truncated
           <<"Here is your resume:", "\n">> \o GoodCandidate
               \o <<"\n", "Good luck!">> }                         \* wrapped in prose

\* llm_gemini.py 199-240: the results a call can have
generate_apply_pack(description, force_same_bullets) ==
    IF Strip(description) = <<>>
    THEN {[kind |-> "raise", msg |-> "ValueError: empty_jd", latex |-> <<>>]}
    ELSE {[kind |-> "raise", msg |-> "generation failed", latex |-> <<>>],
          [kind |-> "missing_fields", msg |-> "", latex |-> <<>>],
          [kind |-> "pack", msg |-> "", latex |-> <<>>]}
         \cup {[kind |-> "pack", msg |-> "", latex |-> d] : d \in Candidates}

\* the job descriptions a page can hold
JobDescriptions == {<<>>, <<" ">>, <<"We are hiring.">>}

----------------------------------------------------------------------------
(* History: what a full validator would say of a document, every check     *)
(* applied on its own.                                                     *)

FailedChecks(doc) ==
    (IF looks_like_latex_resume(doc)[2] \in {"Empty output", "Missing tokens"}
     THEN {"shape"} ELSE {})
    \cup (IF Count(doc, "{") # Count(doc, "}") THEN {"balance"} ELSE {})
    \cup (IF require_same_section_markers(MASTER_LATEX, doc) # "" THEN {"markers"} ELSE {})
    \cup (IF require_no_new_companies(MASTER_LATEX, doc) # "" THEN {"entries"} ELSE {})
    \cup (IF require_bullet_count_stable(MASTER_LATEX, doc, MAX_DROP, MAX_ADD) # ""
          THEN {"bullets"} ELSE {})

----------------------------------------------------------------------------
(* run.py 477-511: the first attempt, from the generation call to the      *)
(* bullet-count guard.  next is where main() goes on: "except" with exc    *)
(* set, "retry" (the except RuntimeError branch of line 512) or "checked"  *)
(* (line 547).  stages lists the calls made, in order.                     *)

\* an outcome that takes a page to the except Exception handler where the
\* code takes it to the second attempt
OutcomeNoRetry(next, tex, lk, e, stages, fails) ==
    [next |-> IF next = "retry" THEN "except" ELSE next,
     tex |-> tex, ok |-> lk[1], reason |-> lk[2],
     exc |-> IF next = "retry" THEN "RuntimeError: mutation_violation: bullet_count" ELSE e,
     stages |-> stages, fails |-> fails]

Outcome(next, tex, lk, e, stages, fails) ==
    [next |-> next, tex |-> tex, ok |-> lk[1], reason |-> lk[2], exc |-> e,
     stages |-> stages, fails |-> fails]

NoLook == <<FALSE, "">>

\* lines 485-501: the pack is checked for its fields and its LaTeX text
PackError(g) ==
    IF g.kind = "raise" THEN g.msg
    ELSE IF g.kind = "missing_fields" THEN "RuntimeError: LLM JSON missing fields"
    ELSE IF g.latex = <<>> THEN "RuntimeError: LLM output missing LaTeX field"
    ELSE ""

FirstChain(g) ==
    IF PackError(g) # ""
    THEN Outcome("except", <<>>, NoLook, PackError(g), <<"generate_apply_pack">>, {"generation"})
    ELSE
    LET san == sanitize_latex(g.latex) IN
    IF san.raised
    THEN Outcome("except", <<>>, NoLook, "RuntimeError: " \o san.msg,
                 <<"generate_apply_pack", "sanitize_latex">>, {"sanitize"})
    ELSE
    LET mer == merge_with_master_preamble(MASTER_LATEX, san.tex) IN
    IF mer.raised
    THEN Outcome("except", san.tex, NoLook, "RuntimeError: " \o mer.msg,
                 <<"generate_apply_pack", "sanitize_latex", "merge_with_master_preamble">>,
                 {"merge"})
    ELSE
    LET doc == mer.tex
        lk == looks_like_latex_resume(doc)
        sec == require_same_section_markers(MASTER_LATEX, doc)
        bul == require_bullet_count_stable(MASTER_LATEX, doc, MAX_DROP, MAX_ADD)
        st == <<"generate_apply_pack", "sanitize_latex", "merge_with_master_preamble",
                "looks_like_latex_resume", "require_same_section_markers">>
    IN  IF sec # ""
        THEN Outcome("except", doc, lk, "RuntimeError: " \o sec, st, FailedChecks(doc))
        ELSE IF bul # ""
        THEN Outcome("retry", doc, lk, "", st \o <<"require_bullet_count_stable">>,
                     FailedChecks(doc))
        ELSE Outcome("checked", doc, lk, "", st \o <<"require_bullet_count_stable">>,
                     FailedChecks(doc))

\* a second attempt that goes round again when the bullet count drifts again
RetryChainAgain(g) ==
    IF PackError(g) # ""
    THEN Outcome("except", <<>>, NoLook, PackError(g), <<"generate_apply_pack">>, {"generation"})
    ELSE
    LET san == sanitize_latex(g.latex) IN
    IF san.raised
    THEN Outcome("except", <<>>, NoLook, "RuntimeError: " \o san.msg,
                 <<"generate_apply_pack", "sanitize_latex">>, {"sanitize"})
    ELSE
    LET doc == san.tex
        lk == looks_like_latex_resume(doc)
        sec == require_same_section_markers(MASTER_LATEX, doc)
        bul == require_bullet_count_stable(MASTER_LATEX, doc, MAX_DROP, MAX_ADD)
        st == <<"generate_apply_pack", "sanitize_latex",
                "looks_like_latex_resume", "require_same_section_markers">>
    IN  IF sec # ""
        THEN Outcome("except", doc, lk, "RuntimeError: " \o sec, st, FailedChecks(doc))
        ELSE IF bul # ""
        THEN Outcome("retry", doc, lk, "", st \o <<"require_bullet_count_stable">>,
                     FailedChecks(doc))
        ELSE Outcome("checked", doc, lk, "", st \o <<"require_bullet_count_stable">>,
                     FailedChecks(doc))

(* run.py 513-545: the second attempt, made in the except RuntimeError     *)
(* branch of the bullet-count guard                                        *)
RetryChain(g) ==
    IF PackError(g) # ""
    THEN Outcome("except", <<>>, NoLook, PackError(g), <<"generate_apply_pack">>, {"generation"})
    ELSE
    LET san == sanitize_latex(g.latex) IN
    IF san.raised
    THEN Outcome("except", <<>>, NoLook, "RuntimeError: " \o san.msg,
                 <<"generate_apply_pack", "sanitize_latex">>, {"sanitize"})
    ELSE
    LET doc == san.tex
        lk == looks_like_latex_resume(doc)
        sec == require_same_section_markers(MASTER_LATEX, doc)
        bul == require_bullet_count_stable(MASTER_LATEX, doc, MAX_DROP, MAX_ADD)
        st == <<"generate_apply_pack", "sanitize_latex",
                "looks_like_latex_resume", "require_same_section_markers">>
    IN  IF sec # ""
        THEN Outcome("except", doc, lk, "RuntimeError: " \o sec, st, FailedChecks(doc))
        ELSE IF bul # ""
        THEN Outcome("except", doc, lk, "RuntimeError: " \o bul,
                     st \o <<"require_bullet_count_stable">>, FailedChecks(doc))
        ELSE Outcome("checked", doc, lk, "", st \o <<"require_bullet_count_stable">>,
                     FailedChecks(doc))

----------------------------------------------------------------------------
(* main(): run.py 411-666 *)

Pages == 1..NumRecords

NoArt == [pdf |-> FALSE, pdf_uploaded |-> FALSE, tex_uploaded |-> FALSE,
          pdf_link |-> FALSE, tex_link |-> FALSE]

(* notion_client.py 133-154: the page after the PATCH of update_page_safe. *)
(* Of a page the store keeps the Status here; the Errors text sent with it *)
(* is in writes, the history of the calls made for the page.               *)
\* a write-back that lands on the page after the one named, when there is one
UpdatePageAfter(n, page_id, status) ==
    IF page_id + 1 \in DOMAIN n THEN [n EXCEPT ![page_id + 1] = status]
    ELSE [n EXCEPT ![page_id] = status]

update_page_safe(n, page_id, status) == [n EXCEPT ![page_id] = status]

\* the PATCH succeeds, or _patch raises (notion_client.py 52-60, 87-95)
PatchResults == {"ok", "raise"}

(* run.py 469-473, 573-577, 615-630, 653-663: the counters and the details *)
(* entry; the reason of the entry is kept in logged for the current page   *)
\* a log update that leaves processed as it is for a page that failed
LoggedOkOnly(log, page_id, status) ==
    [processed |-> log.processed + (IF status = "ok" THEN 1 ELSE 0),
     ok |-> log.ok + (IF status = "ok" THEN 1 ELSE 0),
     errors |-> log.errors + (IF status = "error" THEN 1 ELSE 0),
     details |-> Append(log.details, [page |-> page_id, status |-> status])]

Logged(log, page_id, status) ==
    [processed |-> log.processed + 1,
     ok |-> log.ok + (IF status = "ok" THEN 1 ELSE 0),
     errors |-> log.errors + (IF status = "error" THEN 1 ELSE 0),
     details |-> Append(log.details, [page |-> page_id, status |-> status])]

\* the outcomes of lines 477-511 and of lines 513-545, for each job description
FirstOutcomes == [j \in JobDescriptions |-> {FirstChain(g) : g \in generate_apply_pack(j, FALSE)}]
RetryOutcomes == [j \in JobDescriptions |-> {RetryChain(g) : g \in generate_apply_pack(j, TRUE)}]

MainInit ==
    /\ cur = 0
    /\ pc = "loop"
    /\ jd = <<>>
    /\ tailored_latex = <<>>
    /\ ok = FALSE
    /\ reason = ""
    /\ exc = ""
    /\ tex_file = <<>>
    /\ art = NoArt
    /\ notion = [p \in Pages |-> "Not Applied"]
    /\ run_log = [processed |-> 0, ok |-> 0, errors |-> 0, details |-> <<>>]
    /\ log_written = FALSE
    /\ attempts = <<>>
    /\ writes = <<>>
    /\ logged = ""

Init ==
    /\ MainInit
    /\ call = [fn |-> "none"]
    /\ ret = "none"

\* what the local tailored_latex holds when a page is taken up after a page
\* that assigned it: the text of that earlier page
LeftOver == <<"[tailored_latex of an earlier page]">>

(* lines 442-455: the for loop takes the next page and reads its           *)
(* properties.  The locals of main() are not assigned here: ok and reason  *)
(* keep the values of the page before, tailored_latex keeps its text (all  *)
(* such texts are taken as the one text LeftOver).  The name e of the      *)
(* except clause is unbound again when the clause is left.                 *)
NextPage ==
    /\ pc = "loop"
    /\ cur < NumRecords
    /\ cur' = cur + 1
    /\ jd' \in JobDescriptions
    /\ pc' = "page"
    /\ tailored_latex' = (IF tailored_latex = <<>> THEN <<>> ELSE LeftOver)
    /\ ok' = ok
    /\ reason' = reason
    /\ exc' = ""
    /\ tex_file' = <<>>
    /\ art' = NoArt
    /\ attempts' = <<>>
    /\ writes' = <<>>
    /\ logged' = ""
    /\ UNCHANGED <<notion, run_log, log_written, call, ret>>

\* lines 457-474: the page has no job description
EmptyJd ==
    /\ pc = "page"
    /\ Strip(jd) = <<>>
    /\ \E res \in PatchResults :
         LET why == "Job Description is empty or unreadable by API"
         IN  /\ writes' = Append(writes, [status |-> "Error", errors |-> why, result |-> res])
             /\ IF res = "ok"
                THEN /\ notion' = update_page_safe(notion, cur, "Error")
                     /\ run_log' = Logged(run_log, cur, "error")
                     /\ logged' = "empty_jd"
                     /\ pc' = "loop"
                ELSE \* the call is outside the try: the exception leaves main()
                     /\ pc' = "crashed"
                     /\ UNCHANGED <<notion, run_log, logged>>
    /\ UNCHANGED <<cur, jd, tailored_latex, ok, reason, exc, tex_file, art, log_written,
                   attempts, call, ret>>

\* lines 476-511: first attempt; a local is assigned only if its line is reached
FirstAttempt ==
    /\ pc = "page"
    /\ Strip(jd) # <<>>
    /\ \E o \in FirstOutcomes[jd] :
         /\ tailored_latex' = (IF Len(o.stages) > 2 THEN o.tex ELSE tailored_latex)
         /\ ok' = (IF Len(o.stages) > 3 THEN o.ok ELSE ok)
         /\ reason' = (IF Len(o.stages) > 3 THEN o.reason ELSE reason)
         /\ exc' = o.exc
         /\ pc' = o.next
         /\ attempts' = Append(attempts, [force_same_bullets |-> FALSE,
                                          stages |-> o.stages, fails |-> o.fails])
    /\ UNCHANGED <<cur, jd, tex_file, art, notion, run_log, log_written, writes, logged,
                   call, ret>>

\* lines 512-545: second attempt; a local is assigned only if its line is reached
Retry ==
    /\ pc = "retry"
    /\ \E o \in RetryOutcomes[jd] :
         /\ tailored_latex' = (IF Len(o.stages) > 2 THEN o.tex ELSE tailored_latex)
         /\ ok' = (IF Len(o.stages) > 2 THEN o.ok ELSE ok)
         /\ reason' = (IF Len(o.stages) > 2 THEN o.reason ELSE reason)
         /\ exc' = o.exc
         /\ pc' = o.next
         /\ attempts' = Append(attempts, [force_same_bullets |-> TRUE,
                                          stages |-> o.stages, fails |-> o.fails])
    /\ UNCHANGED <<cur, jd, tex_file, art, notion, run_log, log_written, writes, logged,
                   call, ret>>

\* lines 561-578: the verdict of looks_like_latex_resume is acted on
ReportInvalid ==
    /\ pc = "checked"
    /\ ~ok
    /\ \E res \in PatchResults :
         LET why == "LaTeX invalid: " \o reason
         IN  /\ writes' = Append(writes, [status |-> "Error", errors |-> why, result |-> res])
             /\ IF res = "ok"
                THEN /\ notion' = update_page_safe(notion, cur, "Error")
                     /\ run_log' = Logged(run_log, cur, "error")
                     /\ logged' = reason
                     /\ pc' = "loop"
                     /\ exc' = exc
                ELSE /\ pc' = "except"
                     /\ exc' = "NotionError"
                     /\ UNCHANGED <<notion, run_log, logged>>
    /\ UNCHANGED <<cur, jd, tailored_latex, ok, reason, tex_file, art, log_written,
                   attempts, call, ret>>

\* lines 580-584
WriteTex ==
    /\ pc = "checked"
    /\ ok
    /\ tex_file' = tailored_latex
    /\ pc' = "compile"
    /\ UNCHANGED <<cur, jd, tailored_latex, ok, reason, exc, art, notion, run_log,
                   log_written, attempts, writes, logged, call, ret>>

\* a compile step that goes on to the upload whether or not a PDF was made
CompileUnchecked ==
    /\ pc = "compile"
    /\ \E done \in BOOLEAN :
         /\ art' = [art EXCEPT !.pdf = done]
         /\ pc' = "upload"
    /\ UNCHANGED <<cur, jd, tailored_latex, ok, reason, exc, tex_file, notion, run_log,
                   log_written, attempts, writes, logged, call, ret>>

\* line 586 and lines 373-408
CompilePdf ==
    /\ pc = "compile"
    /\ \E done \in BOOLEAN :
         IF done
         THEN /\ art' = [art EXCEPT !.pdf = TRUE]
              /\ pc' = "upload"
              /\ exc' = exc
         ELSE /\ pc' = "except"
              /\ exc' = "RuntimeError: tectonic_failed"
              /\ art' = art
    /\ UNCHANGED <<cur, jd, tailored_latex, ok, reason, tex_file, notion, run_log,
                   log_written, attempts, writes, logged, call, ret>>

\* lines 589-596: mkdir, copyto pdf, copyto tex, link pdf, link tex; n of them succeed
Upload ==
    /\ pc = "upload"
    /\ \E n \in 0..5 :
         /\ art' = [art EXCEPT !.pdf_uploaded = n >= 2, !.tex_uploaded = n >= 3,
                               !.pdf_link = n >= 4, !.tex_link = n >= 5]
         /\ IF n = 5
            THEN pc' = "ready" /\ exc' = exc
            ELSE pc' = "except" /\ exc' = "CalledProcessError"
    /\ UNCHANGED <<cur, jd, tailored_latex, ok, reason, tex_file, notion, run_log,
                   log_written, attempts, writes, logged, call, ret>>

\* lines 598-630
MarkReady ==
    /\ pc = "ready"
    /\ \E res \in PatchResults :
         /\ writes' = Append(writes, [status |-> "Ready", errors |-> "", result |-> res])
         /\ IF res = "ok"
            THEN /\ notion' = update_page_safe(notion, cur, "Ready")
                 /\ run_log' = Logged(run_log, cur, "ok")
                 /\ logged' = "ok"
                 /\ pc' = "loop"
                 /\ exc' = exc
            ELSE /\ pc' = "except"
                 /\ exc' = "NotionError"
                 /\ UNCHANGED <<notion, run_log, logged>>
    /\ UNCHANGED <<cur, jd, tailored_latex, ok, reason, tex_file, art, log_written,
                   attempts, call, ret>>

\* lines 632-663
HandleException ==
    /\ pc = "except"
    /\ \E res \in PatchResults :
         /\ writes' = Append(writes, [status |-> "Error", errors |-> exc, result |-> res])
         /\ IF res = "ok"
            THEN /\ notion' = update_page_safe(notion, cur, "Error")
                 /\ run_log' = Logged(run_log, cur, "error")
                 /\ logged' = exc
                 /\ pc' = "loop"
            ELSE \* the handler's own call is not guarded: the exception leaves main()
                 /\ pc' = "crashed"
                 /\ UNCHANGED <<notion, run_log, logged>>
    /\ UNCHANGED <<cur, jd, tailored_latex, ok, reason, exc, tex_file, art, log_written,
                   attempts, call, ret>>

\* line 666
WriteRunLog ==
    /\ pc = "loop"
    /\ cur = NumRecords
    /\ log_written' = TRUE
    /\ pc' = "exit"
    /\ UNCHANGED <<cur, jd, tailored_latex, ok, reason, exc, tex_file, art, notion, run_log,
                   attempts, writes, logged, call, ret>>

Next ==
    \/ NextPage
    \/ EmptyJd
    \/ FirstAttempt
    \/ Retry
    \/ ReportInvalid
    \/ WriteTex
    \/ CompilePdf
    \/ Upload
    \/ MarkReady
    \/ HandleException
    \/ WriteRunLog

Spec == Init /\ [][Next]_vars

\* main() is one sequential program: whenever it can take a step, it takes one
FairSpec == Spec /\ WF_vars(Next)

----------------------------------------------------------------------------
(* require_bullet_count_stable on its own (run.py 364-370): a call with    *)
(* any reference, any candidate and any tolerances, then its result.       *)

\* a document with n bullets; \itemsep is a command that is no bullet
ItemDoc(n, decoy) ==
    <<DC, BD>> \o Repeat(<<ITEM>>, n)
    \o (IF decoy THEN <<"\\itemsep">> ELSE <<>>) \o <<ED>>

BulletCalls ==
    {[fn |-> "require_bullet_count_stable",
      m_items |-> m, t_items |-> t,
      master |-> ItemDoc(m, FALSE), tailored |-> ItemDoc(t, decoy),
      max_drop |-> d, max_add |-> a] :
        m \in 0..MaxMasterItems, t \in 0..(MaxMasterItems + MaxTol + 1),
        decoy \in BOOLEAN, d \in 0..MaxTol, a \in 0..MaxTol}

BulletInit ==
    /\ MainInit
    /\ call \in BulletCalls
    /\ ret = "none"

ApplyBullet ==
    /\ ret = "none"
    /\ ret' = (LET msg == require_bullet_count_stable(call.master, call.tailored,
                                                     call.max_drop, call.max_add)
               IN  IF msg = "" THEN "returned" ELSE msg)
    /\ UNCHANGED <<call, cur, pc, jd, tailored_latex, ok, reason, exc, tex_file, art,
                   notion, run_log, log_written, attempts, writes, logged>>

BulletNext == ApplyBullet

SpecBullet == BulletInit /\ [][BulletNext]_vars

----------------------------------------------------------------------------
(* require_same_section_markers on its own (run.py 339-352): a call with   *)
(* any reference and any candidate, each holding some of the three section *)
(* markers, then its result.                                               *)

\* a document that holds the markers of the set ms, in the order of the list
MarkerDoc(ms, extra) ==
    <<DC, BD, "\n">>
    \o SelectSeq(RequiredMarkers, LAMBDA m : m \in ms)
    \o Repeat(<<ITEM>>, extra) \o <<"\n", ED>>

MarkerCalls ==
    {[fn |-> "require_same_section_markers",
      master_has |-> mm, tailored_has |-> tt,
      master |-> MarkerDoc(mm, 0), tailored |-> MarkerDoc(tt, e)] :
        mm \in SUBSET {SKILLS, EXPERIENCE, PROJECTS},
        tt \in SUBSET {SKILLS, EXPERIENCE, PROJECTS},
        e \in 0..MaxExtraItems}

MarkerInit ==
    /\ MainInit
    /\ call \in MarkerCalls
    /\ ret = "none"

ApplyMarkers ==
    /\ ret = "none"
    /\ ret' = (LET msg == require_same_section_markers(call.master, call.tailored)
               IN  IF msg = "" THEN "returned" ELSE msg)
    /\ UNCHANGED <<call, cur, pc, jd, tailored_latex, ok, reason, exc, tex_file, art,
                   notion, run_log, log_written, attempts, writes, logged>>

MarkerNext == ApplyMarkers

SpecMarkers == MarkerInit /\ [][MarkerNext]_vars

----------------------------------------------------------------------------
(* sanitize_latex on its own (run.py 272-315): a call with any raw text,   *)
(* then its result.  The raw texts are those a model is seen to return - a *)
(* document with or without prose around it, a code fence, a first command *)
(* without its backslash, a closing marker - and every short text over the *)
(* tokens the sanitizer looks at.                                          *)

Typographic ==
    {"U+2013", "U+2014", "U+2018", "U+2019", "U+201C", "U+201D", "U+2022", "U+00D7", "U+00A0"}

RawBodies ==
    {<<>>, <<"U+FEFF">>, <<"NUL">>, <<"&">>, <<"\\", "&">>, <<"\\times">>, <<"U+2013", "&">>,
     <<"{">>}
    \cup {<<t>> : t \in Typographic}

RawAttrs ==
    [lead : {"none", "bom", "blank", "prose"},
     fence : {"none", "plain", "lang", "indent"},
     first : {"dc", "bare", "usepackage", "none"},
     body : RawBodies,
     end : BOOLEAN,
     close : {"none", "fence", "prose"}]

MkRaw(a) ==
    (CASE a.lead = "bom" -> <<"U+FEFF">>
       [] a.lead = "blank" -> <<" ", "\n">>
       [] a.lead = "prose" -> <<"Here is your resume:", "\n">>
       [] OTHER -> <<>>)
    \o (CASE a.fence = "plain" -> <<FENCE, "\n">>
          [] a.fence = "lang" -> <<FENCE, "latex", "\n">>
          [] a.fence = "indent" -> <<FENCE, "latex", "\n", " ", " ">>
          [] OTHER -> <<>>)
    \o (CASE a.first = "dc" -> <<DC>>
          [] a.first = "bare" -> <<"documentclass">>
          [] a.first = "usepackage" -> <<"usepackage", "{x}", "\n", "documentclass">>
          [] OTHER -> <<>>)
    \o <<"{article}", BD, "\n">> \o a.body
    \o (IF a.end THEN <<"\n", ED>> ELSE <<>>)
    \o (CASE a.close = "fence" -> <<"\n", FENCE>>
          [] a.close = "prose" -> <<"\n", FENCE, "\n", "Good luck!">>
          [] OTHER -> <<>>)

\* the tokens of the short texts
RawAlphabet == {FENCE, "latex", " ", "\n", DC, "documentclass", ED, "Hi!"}

RECURSIVE SeqsUpTo(_, _)
SeqsUpTo(S, n) ==
    IF n = 0 THEN {<<>>}
    ELSE LET shorter == SeqsUpTo(S, n - 1)
         IN  shorter \cup {Append(s, t) : s \in shorter, t \in S}

RawTexts == {MkRaw(a) : a \in RawAttrs} \cup SeqsUpTo(RawAlphabet, MaxRawLen)

\* body is the body text a raw text was built around, <<>> for a short text
SanitizeCalls ==
    {[fn |-> "sanitize_latex", tex |-> MkRaw(a), body |-> a.body, out |-> <<>>] :
        a \in RawAttrs}
    \cup {[fn |-> "sanitize_latex", tex |-> t, body |-> <<>>, out |-> <<>>] :
             t \in SeqsUpTo(RawAlphabet, MaxRawLen)}

SanitizeInit ==
    /\ MainInit
    /\ call \in SanitizeCalls
    /\ ret = "none"

\* ret is "returned" or the message of the RuntimeError; call.out the string returned
ApplySanitize ==
    /\ ret = "none"
    /\ LET r == sanitize_latex(call.tex)
       IN  /\ ret' = (IF r.raised THEN r.msg ELSE "returned")
           /\ call' = [call EXCEPT !.out = r.tex]
    /\ UNCHANGED <<cur, pc, jd, tailored_latex, ok, reason, exc, tex_file, art,
                   notion, run_log, log_written, attempts, writes, logged>>

SanitizeNext == ApplySanitize

SpecSanitize == SanitizeInit /\ [][SanitizeNext]_vars

----------------------------------------------------------------------------
(* escape_tex_specials on its own (run.py 250-269): a call with any short  *)
(* text over the reserved characters, the backslash and a letter, then the *)
(* function applied to the text and applied again to its own result.       *)

Reserved == {"&", "%", "$", "#", "_", "^", "~"}

EscapeAlphabet == Reserved \cup {"\\", "a"}

EscapeCalls ==
    {[fn |-> "escape_tex_specials", latex |-> t, out |-> <<>>, out2 |-> <<>>] :
        t \in SeqsUpTo(EscapeAlphabet, MaxEscLen)}

EscapeInit ==
    /\ MainInit
    /\ call \in EscapeCalls
    /\ ret = "none"

ApplyEscape ==
    /\ ret = "none"
    /\ call' = [call EXCEPT !.out = escape_tex_specials(call.latex)]
    /\ ret' = "once"
    /\ UNCHANGED <<cur, pc, jd, tailored_latex, ok, reason, exc, tex_file, art,
                   notion, run_log, log_written, attempts, writes, logged>>

ApplyEscapeAgain ==
    /\ ret = "once"
    /\ call' = [call EXCEPT !.out2 = escape_tex_specials(call.out)]
    /\ ret' = "twice"
    /\ UNCHANGED <<cur, pc, jd, tailored_latex, ok, reason, exc, tex_file, art,
                   notion, run_log, log_written, attempts, writes, logged>>

EscapeNext == ApplyEscape \/ ApplyEscapeAgain

SpecEscape == EscapeInit /\ [][EscapeNext]_vars

----------------------------------------------------------------------------
(* merge_with_master_preamble on its own (run.py 318-332): a call with a   *)
(* reference (with one \begin{document}, with two, with none) and any      *)
(* short candidate over the tokens the function looks at, then its result. *)

MergeMasters ==
    {MASTER_LATEX,
     <<DC, "{ref}", BD, "\n", "ref body", BD, "\n", ED>>,
     <<DC, "{ref}", "\n", "ref body", "\n", ED>>}

MergeAlphabet == {"{own}", BD, " ", "body", ED}

MergeCalls ==
    {[fn |-> "merge_with_master_preamble", master |-> m, tex |-> <<DC>> \o t, out |-> <<>>] :
        m \in MergeMasters, t \in SeqsUpTo(MergeAlphabet, MaxMergeLen)}

MergeInit ==
    /\ MainInit
    /\ call \in MergeCalls
    /\ ret = "none"

\* ret is "returned" or the message of the RuntimeError; call.out the string returned
ApplyMerge ==
    /\ ret = "none"
    /\ LET r == merge_with_master_preamble(call.master, call.tex)
       IN  /\ ret' = (IF r.raised THEN r.msg ELSE "returned")
           /\ call' = [call EXCEPT !.out = r.tex]
    /\ UNCHANGED <<cur, pc, jd, tailored_latex, ok, reason, exc, tex_file, art,
                   notion, run_log, log_written, attempts, writes, logged>>

MergeNext == ApplyMerge

SpecMerge == MergeInit /\ [][MergeNext]_vars

----------------------------------------------------------------------------
(* The retry policies: notion_client.py 52-95 (_raise_for_status and the   *)
(* tenacity decorator of _get, _post, _patch) and llm_gemini.py 172-188    *)
(* (_is_transient_gemini_error and the decorator of _generate_with_retry). *)
(* A call is a run of attempts; call.hist lists what each attempt met.     *)

\* stop_after_attempt(6): notion_client.py 69, 79, 89 and llm_gemini.py 184
NOTION_ATTEMPTS == 6
GEMINI_ATTEMPTS == 6

\* HTTP status codes a record-store request can be answered with
HttpStatuses == {200, 400, 401, 404, 429, 500, 503}

\* a status test for which every failure is one to try again
RaiseRetryableAlways(status) ==
    IF ~(status < 400) THEN "NotionRetryableError" ELSE ""

\* notion_client.py 52-60: the exception raised for a response, "" for none
_raise_for_status(status) ==
    IF status = 429 THEN "NotionRetryableError"
    ELSE IF 500 <= status /\ status < 600 THEN "NotionRetryableError"
    ELSE IF ~(status < 400) THEN "NotionError"
    ELSE ""

\* the strings _is_transient_gemini_error looks for
GeminiMarkers == {"503", "UNAVAILABLE", "429", "RESOURCE_EXHAUSTED", "500", "INTERNAL"}

\* the markers that are substrings of a word of an error text
MarkersIn(word) ==
    CASE word \in GeminiMarkers -> {word}
      [] word = "limit=5000" -> {"500"}
      [] word = "INTERNAL_ERROR" -> {"INTERNAL"}
      [] OTHER -> {}

\* what an attempt of generate_content can meet: "ok" or the words of
\* "{type(e).__name__}: {e}"
GeminiResults ==
    {<<"ok">>,
     <<"ServerError:", "503", "UNAVAILABLE">>,
     <<"ClientError:", "429", "RESOURCE_EXHAUSTED">>,
     <<"ServerError:", "500", "INTERNAL">>,
     <<"ClientError:", "400", "INVALID_ARGUMENT", "limit=5000">>,
     <<"ClientError:", "401", "UNAUTHENTICATED">>,
     <<"ClientError:", "404", "NOT_FOUND">>,
     <<"ValidationError:", "tailored_latex">>}

\* llm_gemini.py 172-178
_is_transient_gemini_error(e) ==
    \E x \in GeminiMarkers : \E i \in 1..Len(e) : x \in MarkersIn(e[i])

RetryCalls ==
    {[fn |-> f, hist |-> <<>>] : f \in {"_get", "_post", "_patch", "_generate_with_retry"}}

RetryInit ==
    /\ MainInit
    /\ call \in RetryCalls
    /\ ret = "none"

\* one attempt of _get, _post or _patch, and what tenacity does with its result
AttemptNotion ==
    /\ ret = "none"
    /\ call.fn \in {"_get", "_post", "_patch"}
    /\ \E status \in HttpStatuses :
         LET e == _raise_for_status(status)
             n == Len(call.hist) + 1
         IN  /\ call' = [call EXCEPT !.hist = Append(@, status)]
             /\ ret' = IF e = "" THEN "returned"
                       ELSE IF e # "NotionRetryableError" THEN e
                       ELSE IF n >= NOTION_ATTEMPTS THEN "RetryError"
                       ELSE "none"
    /\ UNCHANGED <<cur, pc, jd, tailored_latex, ok, reason, exc, tex_file, art,
                   notion, run_log, log_written, attempts, writes, logged>>

\* one attempt of _generate_with_retry; reraise=True: the last exception is raised
AttemptGemini ==
    /\ ret = "none"
    /\ call.fn = "_generate_with_retry"
    /\ \E r \in GeminiResults :
         LET n == Len(call.hist) + 1
         IN  /\ call' = [call EXCEPT !.hist = Append(@, r)]
             /\ ret' = IF r = <<"ok">> THEN "returned"
                       ELSE IF ~_is_transient_gemini_error(r) THEN r[1]
                       ELSE IF n >= GEMINI_ATTEMPTS THEN r[1]
                       ELSE "none"
    /\ UNCHANGED <<cur, pc, jd, tailored_latex, ok, reason, exc, tex_file, art,
                   notion, run_log, log_written, attempts, writes, logged>>

RetryNext == AttemptNotion \/ AttemptGemini

SpecRetry == RetryInit /\ [][RetryNext]_vars

----------------------------------------------------------------------------
(* run.py 502-505 on their own: sanitize_latex, then, when it returned,    *)
(* merge_with_master_preamble with MASTER_LATEX and looks_like_latex_resume *)
(* on the merged document.                                                 *)

ApplyMergeAndLook ==
    /\ ret = "returned"
    /\ call.fn = "sanitize_latex"
    /\ LET m == merge_with_master_preamble(MASTER_LATEX, call.out)
       IN  /\ call' = [fn |-> "looks_like_latex_resume", tex |-> call.tex,
                       body |-> call.body, out |-> call.out,
                       merge_raised |-> m.raised, merged |-> m.tex,
                       look |-> looks_like_latex_resume(m.tex)]
           /\ ret' = "looked"
    /\ UNCHANGED <<cur, pc, jd, tailored_latex, ok, reason, exc, tex_file, art,
                   notion, run_log, log_written, attempts, writes, logged>>

FirstPassNext == ApplySanitize \/ ApplyMergeAndLook

SpecFirstPass == SanitizeInit /\ [][FirstPassNext]_vars

----------------------------------------------------------------------------
(* notion_client.py 62-65, 100-154: update_page_safe with the schema index *)
(* it is given.  A property name is a sequence of characters ("A" is the   *)
(* capital of "a"); a schema is the list of the database's properties in   *)
(* the order of its dict; desired is the list of the items of the dict     *)
(* passed in, so its names are distinct.                                   *)

\* str.lower on one character
lower(ch) == IF ch = "A" THEN "a" ELSE ch

\* re.sub(r"\s+", " ", s): every run of white space becomes one space
RECURSIVE CollapseSpace(_)
CollapseSpace(s) ==
    IF s = <<>> THEN <<>>
    ELSE IF Head(s) \in WS
         THEN <<" ">> \o CollapseSpace(SubSeq(s, SkipWhile(s, 1, WS), Len(s)))
         ELSE <<Head(s)>> \o CollapseSpace(Tail(s))

\* notion_client.py 62-65
normalize_name(s) ==
    LET l == Strip(s)
    IN  CollapseSpace([i \in 1..Len(l) |-> lower(l[i])])

\* notion_client.py 100-105: normalized name -> <<actual name, type>>; of two
\* properties with one normalized name the later one stays
build_property_index(schema) ==
    LET keys == {normalize_name(schema[i].name) : i \in 1..Len(schema)}
    IN  [k \in keys |->
            LET hits == {i \in 1..Len(schema) : normalize_name(schema[i].name) = k}
                last == CHOOSE i \in hits : \A j \in hits : j <= i
            IN  schema[last]]

\* notion_client.py 107-108: the index entry, or found = FALSE for None
resolve_prop(idx, name) ==
    IF normalize_name(name) \in DOMAIN idx
    THEN [found |-> TRUE, actual |-> idx[normalize_name(name)].name,
          type |-> idx[normalize_name(name)].type]
    ELSE [found |-> FALSE, actual |-> <<>>, type |-> ""]

\* a value setter that takes every type
SetAnyType(ptype, value) ==
    IF ptype = "number" /\ value = "text"
    THEN [raised |-> TRUE, msg |-> "could not convert string to float", value |-> ""]
    ELSE [raised |-> FALSE, msg |-> "", value |-> value]

\* notion_client.py 110-131: the payload for a value, or the exception
\* (an unsupported type; float() of a text that is no number)
set_prop_value(ptype, value) ==
    IF ptype \in {"title", "rich_text", "url", "select", "status"}
    THEN [raised |-> FALSE, msg |-> "", value |-> value]
    ELSE IF ptype = "number"
    THEN IF value = "text"
         THEN [raised |-> TRUE, msg |-> "could not convert string to float", value |-> ""]
         ELSE [raised |-> FALSE, msg |-> "", value |-> value]
    ELSE [raised |-> TRUE, msg |-> "Unsupported property type", value |-> ""]

\* notion_client.py 134-148: the loop over desired.items(), from item i on
RECURSIVE UpdateLoop(_, _, _, _)
UpdateLoop(desired, idx, i, acc) ==
    IF i > Len(desired) THEN acc
    ELSE LET resolved == resolve_prop(idx, desired[i].name)
             set == set_prop_value(resolved.type, desired[i].value)
         IN  IF ~resolved.found
             THEN UpdateLoop(desired, idx, i + 1,
                    [acc EXCEPT !.skipped = Append(@, [property |-> desired[i].name,
                                                       reason |-> "missing_in_db"])])
             ELSE IF set.raised
             THEN UpdateLoop(desired, idx, i + 1,
                    [acc EXCEPT !.skipped = Append(@, [property |-> resolved.actual,
                                                       reason |-> set.msg])])
             ELSE UpdateLoop(desired, idx, i + 1,
                    [acc EXCEPT !.updated = Append(@, resolved.actual),
                                !.payload = {p \in @ : p[1] # resolved.actual}
                                              \cup {<<resolved.actual, set.value>>}])

\* notion_client.py 133-154: out, the properties of the PATCH and whether
\* the PATCH is made
update_page_safe_out(desired, idx) ==
    LET acc == UpdateLoop(desired, idx, 1, [updated |-> <<>>, skipped |-> <<>>, payload |-> {}])
    IN  [updated |-> acc.updated, skipped |-> acc.skipped, payload |-> acc.payload,
         patched |-> acc.payload # {}]

NameAlphabet == {"A", "a", "b", " "}

PropertyNames == SeqsUpTo(NameAlphabet, MaxNameLen) \ {<<>>}

\* database schemas: none, one property, several, two names that differ in
\* case only, a type update_page_safe has no setter for
Schemas ==
    {<<>>,
     <<[name |-> <<"A">>, type |-> "status"]>>,
     <<[name |-> <<"A">>, type |-> "rich_text"], [name |-> <<"a", " ", "b">>, type |-> "number"]>>,
     <<[name |-> <<"A">>, type |-> "formula"], [name |-> <<"b">>, type |-> "select"]>>,
     <<[name |-> <<"A">>, type |-> "number"], [name |-> <<"a">>, type |-> "formula"]>>,
     <<[name |-> <<" ", "b", "A">>, type |-> "url"], [name |-> <<"b">>, type |-> "rollup"]>>}

PropertyValues == {"text", "7"}

\* desired: one item of any name and value, after none or one of three items
DesiredDicts ==
    LET free == {[name |-> n, value |-> v] : n \in PropertyNames, v \in PropertyValues}
        fixed == {[name |-> <<"A">>, value |-> "text"],
                  [name |-> <<"b">>, value |-> "7"],
                  [name |-> <<"a", "A">>, value |-> "text"]}
    IN  {<<>>} \cup {<<e>> : e \in free}
        \cup {<<p[1], p[2]>> : p \in {q \in fixed \X free : q[1].name # q[2].name}}

UpdateCalls ==
    {[fn |-> "update_page_safe", schema |-> sc, desired |-> d,
      out |-> [updated |-> <<>>, skipped |-> <<>>, payload |-> {}, patched |-> FALSE]] :
        sc \in Schemas, d \in DesiredDicts}

UpdateInit ==
    /\ MainInit
    /\ call \in UpdateCalls
    /\ ret = "none"

ApplyUpdate ==
    /\ ret = "none"
    /\ call' = [call EXCEPT !.out = update_page_safe_out(call.desired,
                                                         build_property_index(call.schema))]
    /\ ret' = "returned"
    /\ UNCHANGED <<cur, pc, jd, tailored_latex, ok, reason, exc, tex_file, art,
                   notion, run_log, log_written, attempts, writes, logged>>

UpdateNext == ApplyUpdate

SpecUpdate == UpdateInit /\ [][UpdateNext]_vars

----------------------------------------------------------------------------
(* run.py 207-210, 589: clean_path_segment and the remote destination.  A  *)
(* text is a sequence of characters; the argument is a text or None.       *)

\* run.py 210: s[:80]
SEGMENT_MAX == 80

UNKNOWN == <<"U", "n", "k", "n", "o", "w", "n">>

\* str.split() with no argument: the maximal runs of characters that are no
\* white space
RECURSIVE SplitWhite(_)
SplitWhite(s) ==
    LET a == SkipWhile(s, 1, WS)
    IN  IF a > Len(s) THEN <<>>
        ELSE LET b == SkipWhile(s, a, {s[i] : i \in 1..Len(s)} \ WS)
             IN  <<SubSeq(s, a, b - 1)>> \o SplitWhite(SubSeq(s, b, Len(s)))

\* sep.join(words)
RECURSIVE Join(_, _)
Join(sep, words) ==
    IF words = <<>> THEN <<>>
    ELSE IF Len(words) = 1 THEN words[1]
    ELSE words[1] \o sep \o Join(sep, Tail(words))

\* a cleaning that keeps the whole text
CleanUncut(arg) ==
    LET t == IF arg.none THEN <<>> ELSE arg.text
        r == ReplaceTok(ReplaceTok(Strip(t), "/", <<"-">>), "\\", <<"-">>)
        j == Join(<<"_">>, SplitWhite(r))
    IN  IF j # <<>> THEN j ELSE UNKNOWN

\* run.py 207-210
clean_path_segment(arg) ==
    LET t == IF arg.none THEN <<>> ELSE arg.text                              \* s or ""
        r == ReplaceTok(ReplaceTok(Strip(t), "/", <<"-">>), "\\", <<"-">>)    \* line 208
        j == Join(<<"_">>, SplitWhite(r))                                     \* line 209
    IN  IF j # <<>> THEN SubSeq(j, 1, IF Len(j) < SEGMENT_MAX THEN Len(j) ELSE SEGMENT_MAX)
        ELSE UNKNOWN

\* run.py 419: DRIVE_ROOT, by default JobApps
drive_root == <<"J", "o", "b", "A", "p", "p", "s">>

\* run.py 589
dest_dir(company, role) ==
    drive_root \o <<"/">> \o clean_path_segment(company) \o <<"/">> \o clean_path_segment(role)

SegmentAlphabet == {"a", " ", "\n", "/", "\\", "."}

\* texts: a short one, alone or after a run of SEGMENT_MAX - 1 letters
SegmentTexts ==
    {Repeat(<<"a">>, n) \o s : n \in {0, SEGMENT_MAX - 1},
                               s \in SeqsUpTo(SegmentAlphabet, MaxSegLen)}

SegmentArgs ==
    {[none |-> TRUE, text |-> <<>>]} \cup {[none |-> FALSE, text |-> t] : t \in SegmentTexts}

RoleArgs ==
    {[none |-> TRUE, text |-> <<>>],
     [none |-> FALSE, text |-> <<" ">>],
     [none |-> FALSE, text |-> <<"a", "/", "a">>],
     [none |-> FALSE, text |-> <<"a", " ", " ", "a">>],
     [none |-> FALSE, text |-> Repeat(<<"a">>, SEGMENT_MAX) \o <<"/", "a">>]}

PathCalls ==
    {[fn |-> "clean_path_segment", company |-> c, role |-> r,
      company_seg |-> <<>>, role_seg |-> <<>>, dest |-> <<>>] :
        c \in SegmentArgs, r \in RoleArgs}

PathInit ==
    /\ MainInit
    /\ call \in PathCalls
    /\ ret = "none"

\* run.py 589: both segments are cleaned and the destination is built
ApplyPath ==
    /\ ret = "none"
    /\ call' = [call EXCEPT !.company_seg = clean_path_segment(call.company),
                            !.role_seg = clean_path_segment(call.role),
                            !.dest = dest_dir(call.company, call.role)]
    /\ ret' = "returned"
    /\ UNCHANGED <<cur, pc, jd, tailored_latex, ok, reason, exc, tex_file, art,
                   notion, run_log, log_written, attempts, writes, logged>>

PathNext == ApplyPath

SpecPath == PathInit /\ [][PathNext]_vars

----------------------------------------------------------------------------
(* Properties *)

\* the text of a document up to and including its first \begin{document}
Preamble(d) == SubSeq(d, 1, Find(d, BD))

\* the document of the page at hand was written to tex_path (and goes to compile_pdf)
Accepted == tex_file # <<>>

\* the page at hand has been brought to its end
PageDone == pc = "loop" /\ cur >= 1

\* the Status the record store holds for the page at hand
StoredStatus == IF cur \in Pages THEN notion[cur] ELSE "Not Applied"

\* the order in which the validator is to apply its checks
CheckOrder == <<"generation", "sanitize", "merge", "shape", "balance", "markers",
                "entries", "bullets">>

\* the first check, in that order, among those that failed; "none" if none did
FailureKind(fails) ==
    LET idx == {i \in 1..Len(CheckOrder) : CheckOrder[i] \in fails}
    IN  IF idx = {} THEN "none"
        ELSE CheckOrder[CHOOSE i \in idx : \A j \in idx : i <= j]

\* the check that a reported reason names
ReportedKind(text) ==
    CASE text \in {"Empty output", "Missing tokens"} -> "shape"
      [] text = "Unbalanced braces" -> "balance"
      [] text = "RuntimeError: mutation_violation: missing section marker" -> "markers"
      [] text = "RuntimeError: mutation_violation: introduced new \\textbf entries" -> "entries"
      [] text = "RuntimeError: mutation_violation: bullet_count" -> "bullets"
      [] OTHER -> "other"

C2_PreambleInvariance ==
    Accepted => Preamble(tex_file) = Preamble(MASTER_LATEX)

(* C3: no document is written that has a \textbf{...} label MASTER_LATEX   *)
(* does not have; a first candidate with such a label gets no second       *)
(* generation call and its page is marked Error.                           *)
C3_NoFabricatedEntry ==
    /\ Accepted => BoldSet(tex_file) \subseteq BoldSet(MASTER_LATEX)
    /\ (attempts # <<>> /\ "entries" \in attempts[1].fails) => Len(attempts) = 1
    /\ (PageDone /\ attempts # <<>> /\ "entries" \in attempts[1].fails
          /\ writes[Len(writes)].result = "ok") => notion[cur] = "Error"

(* C4: a second generation call is made only when the first candidate's    *)
(* failure is the bullet-count drift: when it fails another check, alone   *)
(* or together with a drift, no second call is made and the page is marked *)
(* Error.                                                                  *)
C4_RetryOnlyOnBulletDrift ==
    /\ Len(attempts) >= 2 => FailureKind(attempts[1].fails) = "bullets"
    /\ (PageDone /\ attempts # <<>> /\ writes[Len(writes)].result = "ok"
          /\ FailureKind(attempts[1].fails)
               \in {"sanitize", "shape", "balance", "markers", "entries"})
       => notion[cur] = "Error"

(* C5: the second generation call has force_same_bullets set and the first *)
(* has not; a candidate accepted after the retry went through              *)
(* sanitize_latex, then merge_with_master_preamble, then every check of    *)
(* the validator; no third call follows.                                   *)
ValidatorCalls ==
    {"looks_like_latex_resume", "require_same_section_markers",
     "require_no_new_companies", "require_bullet_count_stable"}

C5_RetriedCandidateFullyChecked ==
    /\ Len(attempts) <= 2
    /\ attempts # <<>> => ~attempts[1].force_same_bullets
    /\ Len(attempts) = 2 => attempts[2].force_same_bullets
    /\ (Len(attempts) = 2 /\ Accepted) =>
         LET st == attempts[2].stages
         IN  /\ Find(st, "sanitize_latex") # 0
             /\ Find(st, "merge_with_master_preamble") > Find(st, "sanitize_latex")
             /\ \A c \in ValidatorCalls :
                    Find(st, c) > Find(st, "merge_with_master_preamble")

(* C6: the failure reported for a rejected candidate is that of the first  *)
(* check that fails in the order shape, balance, section markers, new      *)
(* entries, bullet count: unbalanced braces are reported before a missing  *)
(* section marker.                                                         *)
C6_FirstFailingCheckReported ==
    (PageDone /\ attempts # <<>> /\ ReportedKind(logged) # "other")
    => ReportedKind(logged) = FailureKind(attempts[Len(attempts)].fails)

(* C7: every document written for a page, on the first attempt or after    *)
(* the retry, contains each of the three section markers of MASTER_LATEX.  *)
C7_MarkerConservation ==
    Accepted => \A i \in 1..Len(RequiredMarkers) :
                    /\ Contains(MASTER_LATEX, RequiredMarkers[i])
                    /\ Contains(tex_file, RequiredMarkers[i])

C7_Witness == Accepted /\ Len(attempts) = 2

(* C8: a document is written only if it has as many "{" as "}" and as many *)
(* "[" as "]".                                                             *)
C8_BalancedDelimiters ==
    Accepted => /\ Count(tex_file, "{") = Count(tex_file, "}")
                /\ Count(tex_file, "[") = Count(tex_file, "]")

(* C9: require_bullet_count_stable returns exactly when the candidate's    *)
(* bullet count t has m - max_drop <= t <= m + max_add for the reference's *)
(* count m, both ends included, and raises otherwise.                      *)
C9_BulletBandInclusive ==
    ret # "none" =>
        (ret = "returned" <=>
            /\ call.m_items - call.max_drop <= call.t_items
            /\ call.t_items <= call.m_items + call.max_add)

C9_Witness ==
    /\ ret = "returned"
    /\ call.max_drop = 2
    /\ call.m_items >= 2
    /\ call.t_items = call.m_items - 2

(* C10: no failure met while a page is processed ends the run: main() goes *)
(* through every page and writes the run log.                              *)
C10_NoFailureAbortsRun ==
    /\ pc # "crashed"
    /\ pc = "exit" => (log_written /\ run_log.processed = NumRecords)


(* C11: when the reference lacks one of the three section markers,         *)
(* require_same_section_markers reports the pipeline error (master missing *)
(* section marker) and not a defect of the candidate, whether or not the   *)
(* candidate lacks a marker too.                                           *)
C11_ReferenceDefectIsPipelineError ==
    (ret # "none" /\ call.master_has # {SKILLS, EXPERIENCE, PROJECTS})
    => ret = "pipeline_error: master missing section marker"


(* C12: whenever sanitize_latex returns, the string returned has           *)
(* \documentclass as its very first characters, nothing before it, and     *)
(* holds \end{document}; it raises when the text it is left with has no    *)
(* opening marker or no closing marker.                                    *)
C12_SanitizedStartsWithOpeningMarker ==
    /\ ret = "returned" =>
          /\ call.out # <<>>
          /\ Head(call.out) = DC
          /\ Contains(call.out, ED)
    /\ (ret # "none" /\ ~Contains(SanitizeText(call.tex), DC)) =>
          ret = "does not start with \\documentclass"
    /\ (ret # "none" /\ ~Contains(SanitizeText(call.tex), ED)) =>
          ret \notin {"none", "returned"}


\* raw texts of the kind: prose, then a code fence, then a document whose
\* first command has lost its backslash, with its closing marker
FencedProseBare ==
    {MkRaw(a) : a \in {b \in RawAttrs : /\ b.lead = "prose"
                                        /\ b.fence # "none"
                                        /\ b.first = "bare"
                                        /\ b.end}}

(* C13: a candidate that comes after a line of prose, inside a code fence, *)
(* and whose first command is documentclass without its backslash is       *)
(* sanitized without an error: the string returned starts with             *)
(* \documentclass and holds neither the fence nor the prose.               *)
C13_FencedProseBareIsRepaired ==
    (ret # "none" /\ call.tex \in FencedProseBare) =>
        /\ ret = "returned"
        /\ call.out # <<>>
        /\ Head(call.out) = DC
        /\ ~Contains(call.out, FENCE)
        /\ ~Contains(call.out, "Here is your resume:")


(* C14: escape_tex_specials applied to its own result gives that result    *)
(* again.                                                                  *)
C14_EscapeIdempotent ==
    ret = "twice" => call.out2 = call.out

C14_Witness ==
    /\ ret = "twice"
    /\ call.latex = <<"&", "\\", "%", "^">>
    /\ call.out = <<"\\", "&", "\\", "%", "\t", "extasciicircum{}">>


\* the positions of a text that hold a reserved character with no backslash
\* right before it
Unescaped(s) ==
    {i \in 1..Len(s) : s[i] \in Reserved /\ ~(i > 1 /\ s[i - 1] = "\\")}

\* what escape_tex_specials puts in place of a reserved character
ReplacementOf(ch) ==
    LET k == CHOOSE j \in 1..Len(Replacements) : Replacements[j][1] = ch
    IN  Replacements[k][2]

\* the text with every unescaped reserved character replaced, all at once,
\* and every other character kept where it is
RECURSIVE OnlyUnescapedReplaced(_, _)
OnlyUnescapedReplaced(s, i) ==
    IF i > Len(s) THEN <<>>
    ELSE (IF i \in Unescaped(s) THEN ReplacementOf(s[i]) ELSE <<s[i]>>)
         \o OnlyUnescapedReplaced(s, i + 1)

(* C15: escape_tex_specials changes nothing but the reserved characters    *)
(* that have no backslash before them: a reserved character right after a  *)
(* backslash stays as it is, every other character stays, in order, and    *)
(* every reserved character of the result has a backslash right before it. *)
C15_EscapeOnlyUnescaped ==
    ret # "none" =>
        /\ call.out = OnlyUnescapedReplaced(call.latex, 1)
        /\ \A j \in 1..Len(call.out) :
              call.out[j] \in Reserved => (j > 1 /\ call.out[j - 1] = "\\")

C15_Witness ==
    /\ ret = "once"
    /\ call.latex = <<"\\", "&", "a", "%">>
    /\ call.out = <<"\\", "&", "a", "\\", "%">>


(* C16: a string returned by sanitize_latex holds no byte-order mark, no   *)
(* null character and no en dash, em dash, curly quote, bullet glyph,      *)
(* multiplication sign or non-breaking space: where the raw text had one   *)
(* of these inside the document, the string has its plain form (hyphen,    *)
(* straight quote, x, space); and the escaping of the reserved characters  *)
(* was made on the normalized text, so that neither normalize_unicode nor  *)
(* escape_tex_specials finds anything left to change.                      *)
C16_SanitizedIsPlainText ==
    ret = "returned" =>
        /\ \A j \in 1..Len(call.out) :
              call.out[j] \notin (Typographic \cup {"U+FEFF", "NUL"})
        /\ (Len(call.body) = 1 /\ call.body[1] \in Typographic) =>
              \E j \in 1..Len(call.out) :
                  /\ call.out[j] = BD
                  /\ j + 2 <= Len(call.out)
                  /\ call.out[j + 2] = NormalizeTok(call.body[1])
                  /\ NormalizeTok(call.body[1]) \in {"-", "'", "\"", "x", " "}
        /\ normalize_unicode(call.out) = call.out
        /\ escape_tex_specials(call.out) = call.out

C16_Witness ==
    /\ ret = "returned"
    /\ Head(call.tex) = "U+FEFF"
    /\ call.body = <<"U+00D7">>
    /\ Contains(call.out, "x")
    /\ ~Contains(call.out, "U+00D7")


(* C17: a document is written to tex_path, compiled and uploaded only when *)
(* the final candidate passes all five checks (shape, balance, section     *)
(* markers, no new entries, bullet count); for a candidate that fails one  *)
(* of them nothing is written, compiled or uploaded.                       *)
C17_WrittenOnlyIfAccepted ==
    /\ Accepted => FailedChecks(tex_file) = {}
    /\ art # NoArt => Accepted
    /\ (attempts # <<>> /\ attempts[Len(attempts)].fails # {}) =>
          (tex_file = <<>> /\ art = NoArt)


\* the first candidate failed the bullet-count check and no other; the one
\* returned by the second call has the reference's bullet count and fails
\* no check
DriftThenExact ==
    /\ Len(attempts) = 2
    /\ attempts[1].fails = {"bullets"}
    /\ attempts[2].fails = {}
    /\ count_itemize_items(tailored_latex) = MasterItems

(* C18: when the first candidate fails the bullet-count check only and the *)
(* candidate of the second, corrective call has the reference's bullet     *)
(* count and passes the other checks, the page's document is written and   *)
(* goes to compile_pdf; a bullet-count failure of the first candidate on   *)
(* its own leads to the second call and to no Error write.                 *)
C18_DriftIsRepaired ==
    /\ []((Len(attempts) = 1 /\ attempts[1].fails = {"bullets"})
            => (pc = "retry" /\ writes = <<>>))
    /\ [](DriftThenExact =>
            /\ pc = "checked" => (ok /\ writes = <<>>)
            /\ pc # "checked" => Accepted)
    /\ (DriftThenExact /\ pc = "checked") ~> (pc = "compile" /\ Accepted)

C18_Witness ==
    /\ DriftThenExact
    /\ pc = "upload"
    /\ art.pdf
    /\ tex_file = tailored_latex


Positions(s, t) == {i \in 1..Len(s) : s[i] = t}

\* the candidate has a \begin{document} with an \end{document} after it
HasBodySpan(tex) ==
    \E i \in Positions(tex, BD) : \E j \in Positions(tex, ED) : i < j

\* the body the merge is to take from a candidate
BodyOf(tex) ==
    IF HasBodySpan(tex)
    THEN LET first == CHOOSE i \in Positions(tex, BD) : \A k \in Positions(tex, BD) : i <= k
             last == CHOOSE j \in Positions(tex, ED) : \A k \in Positions(tex, ED) : k <= j
         IN  Strip(SubSeq(tex, first + 1, last - 1))
    ELSE Strip(tex)

(* C20: for a reference that has \begin{document}, the merge returns the   *)
(* reference up to and including its first \begin{document}, a newline,    *)
(* the body, a newline and \end{document}; the body is the trimmed text    *)
(* between the candidate's first \begin{document} and its last             *)
(* \end{document} when the one comes before the other, else the whole      *)
(* trimmed candidate; in the first case the candidate's own preamble is    *)
(* not in the result.  For a reference without \begin{document} it raises. *)
C20_MergeShape ==
    ret # "none" =>
        IF Contains(call.master, BD)
        THEN /\ ret = "returned"
             /\ call.out = Preamble(call.master) \o <<"\n">> \o BodyOf(call.tex)
                              \o <<"\n", ED>>
             /\ (HasBodySpan(call.tex)
                   /\ \A i \in Positions(call.tex, "{own}") :
                         \A k \in Positions(call.tex, BD) : i < k)
                => ~Contains(call.out, "{own}")
        ELSE ret = "Master LaTeX missing \\begin{document}"

C20_Witness ==
    /\ ret = "returned"
    /\ call.master = MASTER_LATEX
    /\ call.tex = <<DC, "{own}", BD, " ", "body", ED>>
    /\ call.out = <<DC, MasterPreambleText, BD, "\n", "body", "\n", ED>>


\* a transient failure, in the words of the retry policy: HTTP 429 or 5xx
\* for the record store, an error text with one of the six markers for the
\* generation call
TransientResult(fn, r) ==
    IF fn = "_generate_with_retry"
    THEN r # <<"ok">> /\ \E i \in 1..Len(r) : MarkersIn(r[i]) # {}
    ELSE r = 429 \/ (r >= 500 /\ r <= 599)

\* a failure that is not transient
PermanentResult(fn, r) ==
    IF fn = "_generate_with_retry"
    THEN r # <<"ok">> /\ \A i \in 1..Len(r) : MarkersIn(r[i]) = {}
    ELSE r >= 400 /\ r # 429 /\ r < 500

(* C21: a generation call and a record-store call are attempted at most    *)
(* six times; every attempt but the last was a transient failure; a        *)
(* permanent failure is raised by the attempt that meets it, so that a     *)
(* call whose first attempt fails for good has made one attempt only.      *)
C21_BoundedTransientRetry ==
    (call.fn \in {"_get", "_post", "_patch", "_generate_with_retry"}) =>
        /\ Len(call.hist) <= 6
        /\ \A i \in 1..(Len(call.hist) - 1) : TransientResult(call.fn, call.hist[i])
        /\ (call.hist # <<>> /\ PermanentResult(call.fn, call.hist[Len(call.hist)]))
              => ret \notin {"none", "returned"}
        /\ (call.hist # <<>> /\ PermanentResult(call.fn, call.hist[1]))
              => Len(call.hist) = 1
        /\ (ret = "none" /\ call.hist # <<>>)
              => TransientResult(call.fn, call.hist[Len(call.hist)])

C21_Witness ==
    /\ call.fn = "_patch"
    /\ Len(call.hist) = 6
    /\ call.hist[6] = 503
    /\ ret = "RetryError"


(* C22: the run log always has processed = ok + errors = number of entries *)
(* of details, and between two pages processed is the number of pages      *)
(* gone through; a step that changes the run log ends the page's           *)
(* iteration, adds one to processed and one to exactly one of ok and       *)
(* errors, and no counter ever goes down.                                  *)
C22_RunLogCounters ==
    /\ [](/\ run_log.processed = run_log.ok + run_log.errors
          /\ run_log.processed = Len(run_log.details)
          /\ pc = "loop" => run_log.processed = cur)
    /\ [][run_log' # run_log =>
            /\ pc' = "loop"
            /\ run_log'.processed = run_log.processed + 1
            /\ Len(run_log'.details) = Len(run_log.details) + 1
            /\ \/ run_log'.ok = run_log.ok + 1 /\ run_log'.errors = run_log.errors
               \/ run_log'.ok = run_log.ok /\ run_log'.errors = run_log.errors + 1]_vars

C22_Witness ==
    /\ pc = "loop"
    /\ cur = 2
    /\ run_log.ok = 1
    /\ run_log.errors = 1
    /\ run_log.details[2].status = "ok"


\* the job description of the page at hand is empty or white space only
BlankJd == cur >= 1 /\ \A i \in 1..Len(jd) : jd[i] \in WS

AllDelivered ==
    /\ Accepted
    /\ ok
    /\ art.pdf
    /\ art.pdf_uploaded
    /\ art.tex_uploaded
    /\ art.pdf_link
    /\ art.tex_link

C25_FirstPassShapeNeverFails ==
    ret = "looked" =>
        /\ ~call.merge_raised
        /\ call.merged # <<>>
        /\ Contains(call.merged, DC)
        /\ Contains(call.merged, BD)
        /\ Contains(call.merged, ED)
        /\ call.look \in {<<TRUE, "OK">>, <<FALSE, "Unbalanced braces">>}

C25_Witness ==
    /\ ret = "looked"
    /\ ~Contains(call.out, BD)
    /\ Contains(call.merged, BD)
    /\ call.look = <<TRUE, "OK">>


\* words of a name: its maximal runs of characters that are no white space
RECURSIVE WordsOf(_)
WordsOf(s) ==
    LET a == SkipWhile(s, 1, WS)
    IN  IF a > Len(s) THEN <<>>
        ELSE LET b == CHOOSE j \in a..Len(s) :
                        /\ \A k \in a..j : s[k] \notin WS
                        /\ (j = Len(s) \/ s[j + 1] \in WS)
                 w == [k \in 1..(b - a + 1) |-> lower(s[a + k - 1])]
             IN  <<w>> \o WordsOf(SubSeq(s, b + 1, Len(s)))

\* two names are one name up to case and white space
SameName(a, b) == WordsOf(a) = WordsOf(b)

SupportedTypes == {"title", "rich_text", "url", "number", "select", "status"}

\* the schema properties a requested name resolves to
ResolvesTo(schema, name) ==
    {i \in 1..Len(schema) : SameName(schema[i].name, name)}

\* the requested item i is named in skipped, by its own name or by the name of
\* the schema property it resolves to
ListedSkipped(c, i) ==
    \E k \in 1..Len(c.out.skipped) :
        \/ c.out.skipped[k].property = c.desired[i].name
        \/ \E j \in ResolvesTo(c.schema, c.desired[i].name) :
              c.out.skipped[k].property = c.schema[j].name

\* C26: update_page_safe sends a property only if a requested name resolves to
\* it up to case and white space and its type is supported; a requested name
\* that resolves to nothing or to a property of an unsupported type is listed in
\* skipped and nothing is sent for it; updated and skipped together hold one
\* entry per requested property; when no requested name resolves, no PATCH is
\* made.
C26_UpdateOnlyResolvedSupported ==
    (call.fn = "update_page_safe" /\ ret = "returned") =>
        /\ \A p \in call.out.payload :
              \E i \in 1..Len(call.desired) :
                 \E j \in ResolvesTo(call.schema, call.desired[i].name) :
                    /\ call.schema[j].name = p[1]
                    /\ call.schema[j].type \in SupportedTypes
                    /\ call.desired[i].value = p[2]
        /\ \A i \in 1..Len(call.desired) :
              LET hits == ResolvesTo(call.schema, call.desired[i].name)
              IN  /\ hits = {} => /\ ListedSkipped(call, i)
                                  /\ \A p \in call.out.payload :
                                        ~SameName(p[1], call.desired[i].name)
                  /\ (\A j \in hits : call.schema[j].type \notin SupportedTypes) =>
                        ListedSkipped(call, i)
        /\ \A p \in call.out.payload :
              \A j \in 1..Len(call.schema) :
                 call.schema[j].name = p[1] => call.schema[j].type \in SupportedTypes
        /\ Len(call.out.updated) + Len(call.out.skipped) = Len(call.desired)
        /\ {call.out.updated[k] : k \in 1..Len(call.out.updated)}
             = {p[1] : p \in call.out.payload}
        /\ (\A i \in 1..Len(call.desired) :
               ResolvesTo(call.schema, call.desired[i].name) = {}) =>
              (~call.out.patched /\ call.out.payload = {})
        /\ call.out.patched <=> call.out.payload # {}

\* a call with one name that resolves through case and white space to a
\* supported property, and one that is skipped
C26_Witness ==
    /\ call.fn = "update_page_safe" /\ ret = "returned"
    /\ Len(call.desired) = 2
    /\ Len(call.out.updated) = 1 /\ Len(call.out.skipped) = 1
    /\ call.out.patched
    /\ \E i \in 1..2 : \E p \in call.out.payload :
          SameName(call.desired[i].name, p[1]) /\ call.desired[i].name # p[1]


\* the parts of a path between its "/"
RECURSIVE PathSegments(_)
PathSegments(p) ==
    IF "/" \notin {p[i] : i \in 1..Len(p)} THEN <<p>>
    ELSE LET k == CHOOSE i \in 1..Len(p) : p[i] = "/" /\ \A j \in 1..(i - 1) : p[j] # "/"
         IN  <<SubSeq(p, 1, k - 1)>> \o PathSegments(SubSeq(p, k + 1, Len(p)))

\* a text usable as one path segment
CleanSegment(seg) ==
    /\ seg # <<>>
    /\ Len(seg) <= SEGMENT_MAX
    /\ \A i \in 1..Len(seg) : seg[i] \notin (WS \cup {"/", "\\"})

\* nothing of the argument remains: it is None, empty or white space only
NothingRemains(arg) == arg.none \/ \A i \in 1..Len(arg.text) : arg.text[i] \in WS

\* C27: for every argument, None, empty and white space only among them,
\* clean_path_segment returns a non-empty text of at most 80 characters without
\* "/", backslash or white space, and "Unknown" when nothing remains; the
\* remote destination is the drive root followed by exactly two segments, the
\* cleaned company and the cleaned role.
C27_CleanSegmentAndDestination ==
    (call.fn = "clean_path_segment" /\ ret = "returned") =>
        /\ CleanSegment(call.company_seg)
        /\ CleanSegment(call.role_seg)
        /\ NothingRemains(call.company) => call.company_seg = UNKNOWN
        /\ NothingRemains(call.role) => call.role_seg = UNKNOWN
        /\ PathSegments(call.dest) = <<drive_root, call.company_seg, call.role_seg>>

\* a company of more than 80 characters with a separator and white space in
\* it, and a role of which nothing remains
C27_Witness ==
    /\ call.fn = "clean_path_segment" /\ ret = "returned"
    /\ ~call.company.none /\ Len(call.company.text) > SEGMENT_MAX
    /\ \E i \in 1..SEGMENT_MAX : call.company.text[i] = "/"
    /\ \E i \in 1..Len(call.company.text) : call.company.text[i] \in WS
    /\ Len(call.company_seg) = SEGMENT_MAX
    /\ NothingRemains(call.role) /\ call.role_seg = UNKNOWN

====
